---- MODULE Spec2Model ----
(***************************************************************************)
(* State-machine model of the three property drivers of the water-model    *)
(* analysis scripts:                                                        *)
(*     calc_DHvap.py      (heat of vaporization, "DHvap")                  *)
(*     calc_density.py    (density, "density")                             *)
(*     examples/diffusion/calc_diffusion.py  (diffusion, "diffusion")      *)
(* (examples/DHvap/calc_DHvap.py is calc_DHvap.py with other input paths   *)
(* and print formats, and is covered by "DHvap".)                          *)
(* One run of one script is one behaviour.  The variable driver says which *)
(* script runs; the scripts share their shape, and where they differ the   *)
(* actions branch on driver.                                               *)
(*                                                                         *)
(* Numbers.  Python floats are carried as exact rationals <<num, den>>     *)
(* (den > 0, lowest terms).  Float constants that have no small exact      *)
(* rational are carried as units or symbols:                               *)
(*   - DHvap: energies are in units of the gas constant R, so R is the     *)
(*     rational one and R * TEMPERATURE is the rational TEMPERATURE;       *)
(*   - density: CONV_FACT * MASS is the unit of density (the rational one);*)
(*   - the polarization term C_pol (DHvap) and the factor                  *)
(*     constant / L / 1E-9 (diffusion) are irrational-looking float        *)
(*     constants that are only ever added to (never multiplied with) a     *)
(*     computed value, so C and mean_corr are pairs <<rat, sym>> standing  *)
(*     for rat + sym * K, K being that constant;                           *)
(*   - sqrt(n/d) is the triple <<n, d, 2>>.                                *)
(* A row of the result file is the tuple of arguments handed to            *)
(* fmt_data.format; the fixed-width rendering is not modelled.             *)
(***************************************************************************)
EXTENDS Integers, Sequences, FiniteSets, TLC

(***************************************************************************)
(* Bounds of the environment.                                              *)
(***************************************************************************)
\* largest number of replica files matching one temperature's pattern
MaxFiles == 3
\* largest number of tokens (or of (time, value) lines) in one replica file
MaxTokens == 2

(***************************************************************************)
(* Program constants.                                                      *)
(***************************************************************************)
TEMPS == <<238, 258, 268, 278, 298, 318, 338>>
MIN_DATA_FILES == 2
\* (atm)
PRESSURE == 1
\* number of molecules
N == 512
\* (1E-11 m^2/s to 1E-9 m^2/s)
CONV_FACT3 == 100
\* the factor 10 of float(value[0])*10
TIME_TO_NS == 10
\* the divisor 6 of slope*CONV_FACT3/6
EINSTEIN == 6
\* small and therefore neglected
C_x == 0
\* CONV_FACT = 1E-3 (cP to kg/(m*s)), as the divisor 1000
VISC_DIV == 1000

(***************************************************************************)
(* Exact rational arithmetic (the model of float arithmetic).              *)
(***************************************************************************)
Abs(a) == IF a < 0 THEN -a ELSE a

RECURSIVE GCD(_, _)
GCD(a, b) == IF b = 0 THEN a ELSE GCD(b, a % b)

Rat(n, d) ==
    LET g == GCD(Abs(n), Abs(d))
        s == IF d < 0 THEN -1 ELSE 1
    IN  <<(s * n) \div g, (s * d) \div g>>

RInt(n) == <<n, 1>>
RZero == RInt(0)
ROne == RInt(1)
\* over the least common denominator, to keep the integers small
RAdd(p, q) ==
    LET g == GCD(p[2], q[2])
    IN  Rat(p[1] * (q[2] \div g) + q[1] * (p[2] \div g), (p[2] \div g) * q[2])
RNeg(p) == <<-p[1], p[2]>>
RSub(p, q) == RAdd(p, RNeg(q))
\* cross-cancelled before multiplying, to keep the integers small
RMul(p, q) ==
    LET a == Rat(p[1], q[2])
        b == Rat(q[1], p[2])
    IN  <<a[1] * b[1], a[2] * b[2]>>
\* q # 0 is the caller's obligation: the actions turn a zero divisor into
\* the ZeroDivisionError python raises
RDiv(p, q) == RMul(p, Rat(q[2], q[1]))
RSq(p) == RMul(p, p)

RECURSIVE RSum(_)
RSum(s) == IF s = <<>> THEN RZero ELSE RAdd(s[1], RSum(Tail(s)))

\* math.sqrt, symbolic: <<n, d, 2>> is the square root of n/d
Sqrt(q) == <<q[1], q[2], 2>>

\* float(n) for every token of a series
Floats(s) == [i \in 1..Len(s) |-> RInt(s[i])]

(***************************************************************************)
(* The environment: what is on disk when the script starts.                *)
(*                                                                         *)
(* focus is the one temperature (an index into TEMPS) at which the input   *)
(* is irregular: its replica files are any number 0..MaxFiles of files     *)
(* with any content of the bounded sets, and fault may remove or damage    *)
(* its line in one correction table.  Every other temperature has the two  *)
(* regular replica files DefaultFiles.                                     *)
(***************************************************************************)
Drivers == {"DHvap", "density", "diffusion"}

\* the correction tables a driver loads, in the order it loads them
Tables(d) ==
    CASE d = "DHvap" -> <<"C_vib", "C_ni">>
      [] d = "diffusion" -> <<"visc">>
      [] OTHER -> <<>>

FaultKinds == {"missing", "short", "long", "badT", "badC"}

Faults(d) ==
    {[tbl |-> "none", kind |-> "none"]}
        \cup {[tbl |-> Tables(d)[i], kind |-> k] :
                 i \in 1..Len(Tables(d)), k \in FaultKinds}

\* the coefficient column of the fixture tables (cP for visc, units of R else)
TableCoef(tbl, i) ==
    CASE tbl = "C_vib" -> i
      [] tbl = "C_ni" -> 0 - i
      [] OTHER -> i + 1

\* token values a replica file can hold
TokenValues(d) ==
    CASE d = "DHvap" -> {-512, -1024}
      [] OTHER -> {1, 2}

RECURSIVE SeqsUpTo(_, _)
SeqsUpTo(S, n) ==
    IF n = 0 THEN {<<>>}
    ELSE LET shorter == SeqsUpTo(S, n - 1)
         IN  shorter \cup {Append(s, x) : s \in {t \in shorter : Len(t) = n - 1}, x \in S}

\* (time, value) lines an MSD file can hold; a file may repeat a line, which
\* gives a series whose times are all identical
Points == {<<1, 1>>, <<2, 3>>}

\* the possible contents of one replica file: a flat series of tokens, or
\* for diffusion a series of (time, value) lines
Contents(d) ==
    IF d = "diffusion"
    THEN SeqsUpTo(Points, MaxTokens)
    ELSE SeqsUpTo(TokenValues(d), MaxTokens)

DefaultFiles(d) ==
    CASE d = "DHvap" -> << <<-512, -1024>>, <<-1024>> >>
      [] d = "density" -> << <<1, 2>>, <<2>> >>
      [] OTHER -> << <<<<1, 1>>, <<2, 3>>>>, <<<<1, 3>>, <<2, 1>>>> >>

VARIABLES
    driver,      \* which script runs
    focus,       \* environment: index of the irregular temperature
    fault,       \* environment: the damage to one correction table
    pc,          \* position of the script
    exitStatus,  \* Running, or the exit status 0 / 1 of the process
    diagPrinted, \* the 'Less than 2 .dat files ...' message was printed
    C_vibs, C_nis, viscs,  \* the module-level dictionaries
    tbl,         \* index in Tables(driver) of the table being loaded
    lines,       \* data lines of the open table still to be parsed
    resultFile,  \* content of the result file: a sequence of records
    wtOpens,     \* how often the result file was opened with mode 'wt'
    ti,          \* index in TEMPS of the temperature being processed
    C,           \* correction constant
    handles,     \* every replica file handle opened so far: id -> open?
    datfiles,    \* the handles yielded by multi_file_manager
    num_files, divisor,
    fi,          \* index in datfiles of the file the secondary loop is at
    series,      \* Us / volumes / data: the series last read
    avg,         \* U_avg / vol_avg / slope: the reduction of series
    estimates,   \* DH_vaps / densities / diffs
    vol_avgs, vol_mean,
    mean, std_dev, mean_corr,
    phases,      \* history: the steps done for the current temperature:
                 \* Lookup (correction tables read, C computed), Discover,
                 \* Reduce, Aggregate, Apply (mean_corr = mean + C), Emit
    replicas     \* history: the per-replica estimate of every file of the
                 \* current temperature that was reduced
vars == <<driver, focus, fault, pc, exitStatus, diagPrinted, C_vibs, C_nis,
          viscs, tbl, lines, resultFile, wtOpens, ti, C, handles, datfiles,
          num_files, divisor, fi, series, avg, estimates, vol_avgs,
          vol_mean, mean, std_dev, mean_corr, phases, replicas>>

\* a name not yet bound (python would raise NameError on reading it); no
\* rational has denominator 0
Unbound == <<0, 0>>
UnboundSym == <<Unbound, Unbound>>

\* exitStatus while the process has not ended
Running == 0 - 1

EmptyMap == [x \in {} |-> RZero]

OLD == [kind |-> "old"]
HEADER == [kind |-> "header"]

TEMPERATURE == TEMPS[ti]

\* a token of a table line: the text of the integer n, or text that neither
\* int() nor float() accepts
Num(n) == [numeric |-> TRUE, val |-> n]
Junk == [numeric |-> FALSE, val |-> 0]

\* the data lines of a correction table on disk, as token lists
TableLines(name) ==
    LET t(i) == Num(TEMPS[i])
        c(i) == Num(TableCoef(name, i))
        line(i) ==
            IF fault.tbl = name /\ i = focus
            THEN CASE fault.kind = "short" -> <<t(i)>>
                   [] fault.kind = "long" -> <<t(i), c(i), Num(0)>>
                   [] fault.kind = "badT" -> <<Junk, c(i)>>
                   [] fault.kind = "badC" -> <<t(i), Junk>>
                   [] OTHER -> <<t(i), c(i)>>
            ELSE <<t(i), c(i)>>
        all == [i \in 1..Len(TEMPS) |-> line(i)]
    IN  IF fault.tbl = name /\ fault.kind = "missing"
        THEN SubSeq(all, 1, focus - 1) \o SubSeq(all, focus + 1, Len(all))
        ELSE all

\* a script that writes the header before it loads its tables
OrderHeaderFirst(d) ==
    IF Tables(d) = <<>> THEN <<"header", "loop">>
    ELSE <<"header", "tables", "loop">>

\* the top-level sections of a script in program order: the table-loading
\* with-blocks, the 'wt' header block, the primary loop
Order(d) ==
    IF Tables(d) = <<>> THEN <<"header", "loop">>
    ELSE <<"tables", "header", "loop">>

\* where the primary loop's body starts: the correction block of DHvap and
\* diffusion; density has none and starts at its with-statement
LoopStart(d) == IF d = "density" THEN "discover" ELSE "correct"

\* the position at which a section starts
Entry(d, section) ==
    CASE section = "tables" -> "open_table"
      [] section = "header" -> "header"
      [] OTHER -> LoopStart(d)

\* the position reached when a section is left
After(d, section) ==
    LET o == Order(d)
        i == CHOOSE j \in 1..Len(o) : o[j] = section
    IN  Entry(d, o[i + 1])

Init ==
    /\ driver \in Drivers
    /\ focus \in 1..Len(TEMPS)
    /\ fault \in Faults(driver)
    /\ pc = Entry(driver, Order(driver)[1])
    /\ exitStatus = Running
    /\ diagPrinted = FALSE
    /\ C_vibs = EmptyMap /\ C_nis = EmptyMap /\ viscs = EmptyMap
    /\ tbl = 1
    /\ lines = <<>>
    /\ resultFile = <<OLD>>
    /\ wtOpens = 0
    /\ ti = 1
    /\ C = UnboundSym
    /\ handles = EmptyMap
    /\ datfiles = <<>>
    /\ num_files = 0 /\ divisor = Unbound
    /\ fi = 1
    /\ series = <<>>
    /\ avg = Unbound
    /\ estimates = <<>>
    /\ vol_avgs = <<>> /\ vol_mean = Unbound
    /\ mean = Unbound /\ std_dev = Unbound /\ mean_corr = UnboundSym
    /\ phases = <<>>
    /\ replicas = <<>>

\* an uncaught exception: traceback, exit status 1
Crash ==
    /\ pc' = "exited"
    /\ exitStatus' = 1

(***************************************************************************)
(* Loading the correction tables.                                          *)
(***************************************************************************)
\* with open(...) as file: lines = file.readlines()[2:]
OpenTable ==
    /\ pc = "open_table"
    /\ lines' = TableLines(Tables(driver)[tbl])
    /\ pc' = "load"
    /\ UNCHANGED <<driver, focus, fault, exitStatus, diagPrinted, C_vibs,
                   C_nis, viscs, tbl, resultFile, wtOpens, ti, C, handles,
                   datfiles, num_files, divisor, fi, series, avg, estimates,
                   vol_avgs, vol_mean, mean, std_dev, mean_corr, phases,
                   replicas>>

\* (T, C_vib) = line.split(); int(T); float(C_vib): does it raise ValueError
LineParses(line) ==
    /\ Len(line) = 2
    /\ line[1].numeric
    /\ line[2].numeric

\* the value stored for a parsed coefficient token
StoredCoef(name, tok) ==
    IF name = "visc" THEN Rat(tok, VISC_DIV) ELSE RInt(tok)

Put(map, k, v) == [x \in DOMAIN map \cup {k} |-> IF x = k THEN v ELSE map[x]]

\* one iteration of 'for line in lines', and leaving the loop
LoadLine ==
    /\ pc = "load"
    /\ LET name == Tables(driver)[tbl]
       IN  IF lines = <<>>
           THEN /\ pc' = IF tbl < Len(Tables(driver)) THEN "open_table"
                         ELSE After(driver, "tables")
                /\ tbl' = IF tbl < Len(Tables(driver)) THEN tbl + 1 ELSE tbl
                /\ UNCHANGED <<lines, exitStatus, C_vibs, C_nis, viscs>>
           ELSE IF ~LineParses(Head(lines))
           THEN /\ Crash
                /\ UNCHANGED <<lines, tbl, C_vibs, C_nis, viscs>>
           ELSE LET k == Head(lines)[1].val
                    v == StoredCoef(name, Head(lines)[2].val)
                IN  /\ C_vibs' = IF name = "C_vib" THEN Put(C_vibs, k, v) ELSE C_vibs
                    /\ C_nis' = IF name = "C_ni" THEN Put(C_nis, k, v) ELSE C_nis
                    /\ viscs' = IF name = "visc" THEN Put(viscs, k, v) ELSE viscs
                    /\ lines' = Tail(lines)
                    /\ UNCHANGED <<pc, tbl, exitStatus>>
    /\ UNCHANGED <<driver, focus, fault, diagPrinted, resultFile, wtOpens,
                   ti, C, handles, datfiles, num_files, divisor, fi, series,
                   avg, estimates, vol_avgs, vol_mean, mean, std_dev, mean_corr,
                   phases, replicas>>

\* a row written with mode 'wt' instead of 'at'
OpenAtTruncating(file) == <<>>

\* open(<result file>, 'wt') truncates; open(<result file>, 'at') keeps
OpenWt(file) == <<>>

OpenAt(file) == file

\* with open(<result file>, 'wt') as header: three header.write calls
WriteHeader ==
    /\ pc = "header"
    /\ resultFile' = Append(OpenWt(resultFile), HEADER)
    /\ wtOpens' = wtOpens + 1
    /\ pc' = After(driver, "header")
    /\ UNCHANGED <<driver, focus, fault, exitStatus, diagPrinted, C_vibs,
                   C_nis, viscs, tbl, lines, ti, C, handles, datfiles,
                   num_files, divisor, fi, series, avg, estimates, vol_avgs,
                   vol_mean, mean, std_dev, mean_corr, phases, replicas>>


(***************************************************************************)
(* The primary loop: one temperature.                                      *)
(***************************************************************************)
Has(map, k) == k \in DOMAIN map

\* R, the gas constant: the unit of energy of the model
R == ROne
\* CONV_FACT * MASS: the unit of density of the model
CONV_FACT_MASS == ROne

\* lines 63-86 of calc_DHvap.py, 60-71 of calc_diffusion.py: the correction
\* constant, looked up before the replica files are looked for.  A missing
\* key raises KeyError.
Correct ==
    /\ pc = "correct"
    /\ phases' = IF (driver = "DHvap" /\ Has(C_vibs, TEMPERATURE)
                                      /\ Has(C_nis, TEMPERATURE))
                    \/ (driver # "DHvap" /\ Has(viscs, TEMPERATURE))
                 THEN <<"Lookup">> ELSE <<>>
    /\ replicas' = <<>>
    /\ IF driver = "DHvap"
       THEN IF Has(C_vibs, TEMPERATURE) /\ Has(C_nis, TEMPERATURE)
            THEN /\ C' = <<RAdd(RAdd(C_vibs[TEMPERATURE], C_nis[TEMPERATURE]),
                                RInt(C_x)), ROne>>
                 /\ pc' = "discover"
                 /\ UNCHANGED exitStatus
            ELSE /\ Crash
                 /\ UNCHANGED C
       ELSE IF Has(viscs, TEMPERATURE)
            THEN /\ C' = <<RZero, RDiv(RInt(TEMPERATURE), viscs[TEMPERATURE])>>
                 /\ pc' = "discover"
                 /\ UNCHANGED exitStatus
            ELSE /\ Crash
                 /\ UNCHANGED C
    /\ UNCHANGED <<driver, focus, fault, diagPrinted, C_vibs, C_nis, viscs,
                   tbl, lines, resultFile, wtOpens, ti, handles, datfiles,
                   num_files, divisor, fi, series, avg, estimates, vol_avgs,
                   vol_mean, mean, std_dev, mean_corr>>

\* multi_file_manager, entering: files = [open(file, mode) for file in files]
ManagerEnter(h, ids) ==
    [x \in DOMAIN h \cup {ids[k] : k \in 1..Len(ids)} |->
        IF \E k \in 1..Len(ids) : ids[k] = x THEN TRUE ELSE h[x]]

\* multi_file_manager, leaving the with-block.  The generator has no
\* try/finally around its yield: an exception raised in the block (SystemExit
\* of exit(1) included) is thrown into the generator at the yield and leaves
\* it at once, so the closing loop runs only when the block ends normally.
ManagerExit(h, ids, raised) ==
    IF raised THEN h
    ELSE [x \in DOMAIN h |->
            IF \E k \in 1..Len(ids) : ids[k] = x THEN FALSE ELSE h[x]]

\* the threshold test written with <= for <
TooFewInclusive(n) == n <= MIN_DATA_FILES

\* if num_files < MIN_DATA_FILES
TooFew(n) == n < MIN_DATA_FILES

\* the estimate lists initialised once, outside the primary loop
FreshListKept(old) == old

\* DH_vaps = [] / densities = [] / diffs = [] / vol_avgs = []
FreshList(old) == <<>>

\* the population divisor n for the sample divisor n - 1
DivisorPopulation(n) == RInt(n)

\* float(num_files-1)
Divisor(n) == RInt(n - 1)

\* the with-statement, the count check and the initialisations before the
\* secondary loop
Discover ==
    /\ pc = "discover"
    /\ \E n \in IF ti = focus THEN 0..MaxFiles
                ELSE {Len(DefaultFiles(driver))} :
         LET ids == [k \in 1..n |-> <<ti, k>>]
         IN  /\ datfiles' = ids
             /\ num_files' = n
             /\ IF TooFew(n)
                THEN /\ diagPrinted' = TRUE
                     /\ handles' = ManagerExit(ManagerEnter(handles, ids), ids, TRUE)
                     /\ Crash
                     /\ UNCHANGED <<estimates, vol_avgs, divisor, fi>>
                ELSE /\ handles' = ManagerEnter(handles, ids)
                     /\ estimates' = FreshList(estimates)
                     /\ vol_avgs' = IF driver = "density" THEN FreshList(vol_avgs)
                                    ELSE vol_avgs
                     /\ divisor' = Divisor(n)
                     /\ fi' = 1
                     /\ pc' = "reduce"
                     /\ UNCHANGED <<diagPrinted, exitStatus>>
    /\ phases' = IF driver = "density" THEN <<"Discover">>
                 ELSE Append(phases, "Discover")
    /\ replicas' = <<>>
    /\ UNCHANGED <<driver, focus, fault, C_vibs, C_nis, viscs, tbl, lines,
                   resultFile, wtOpens, ti, C, series, avg, vol_mean, mean,
                   std_dev, mean_corr>>

\* the sum divided by one more than the number of tokens
MeanReduceOffByOne(s) == RDiv(RSum(Floats(s)), RInt(Len(s) + 1))

\* float(sum(Us)) / len(Us), for a non-empty series
MeanReduce(s) == RDiv(RSum(Floats(s)), RInt(Len(s)))

\* DH_vap = - U_avg / N + R * TEMPERATURE
DHvapOf(U_avg, T) == RAdd(RDiv(RNeg(U_avg), RInt(N)), RMul(R, RInt(T)))

\* density = CONV_FACT * MASS / vol_avg, for vol_avg # 0
DensityOf(vol_avg) == RDiv(CONV_FACT_MASS, vol_avg)

\* xd = [float(value[0])*10 ...], yd = [float(value[1]) ...]
Xd(data) == [i \in 1..Len(data) |-> RInt(data[i][1] * TIME_TO_NS)]
Yd(data) == [i \in 1..Len(data) |-> RInt(data[i][2])]

\* np.polyfit(xd, yd, 1, full=True)[0][0] for at least one point.  polyfit
\* solves the column-scaled least-squares problem with lstsq.  With two
\* distinct abscissas that is the regression slope.  With one point, or with
\* all abscissas equal to a # 0, the matrix has rank 1: lstsq returns the
\* minimum-norm solution, whose slope is mean(yd) / (2 a); polyfit warns of
\* the rank only when full is false, so here it returns silently.
PolyfitSlope(xd, yd) ==
    LET n == RInt(Len(xd))
        Sx == RSum(xd)
        Sy == RSum(yd)
        Sxx == RSum([i \in 1..Len(xd) |-> RSq(xd[i])])
        Sxy == RSum([i \in 1..Len(xd) |-> RMul(xd[i], yd[i])])
        det == RSub(RMul(n, Sxx), RSq(Sx))
    IN  IF det # RZero
        THEN RDiv(RSub(RMul(n, Sxy), RMul(Sx, Sy)), det)
        ELSE RDiv(Sy, RMul(RInt(2), RMul(n, xd[1])))

\* diff = slope*CONV_FACT3/6
DiffOf(slope) == RDiv(RMul(slope, RInt(CONV_FACT3)), RInt(EINSTEIN))

\* mean = float(sum(xs)) / len(xs)
Mean(xs) == RDiv(RSum(xs), RInt(Len(xs)))

\* means_diff_sq = ((x-mean)**2 for x in xs); sqrt(sum(means_diff_sq) / divisor)
StdDev(xs, m, div) ==
    Sqrt(RDiv(RSum([i \in 1..Len(xs) |-> RSq(RSub(xs[i], m))]), div))

\* does reducing a replica file of this content raise: ZeroDivisionError on
\* an empty series (len(Us) = 0, or vol_avg = 0), TypeError of polyfit on
\* an empty vector
ReduceRaises(d, c) ==
    \/ c = <<>>
    \/ d = "density" /\ MeanReduce(c) = RZero

\* the reduction of a series that does not raise
Reduction(d, c) ==
    IF d = "diffusion" THEN PolyfitSlope(Xd(c), Yd(c)) ELSE MeanReduce(c)

\* the per-replica estimate
Estimate(d, a, T) ==
    CASE d = "DHvap" -> DHvapOf(a, T)
      [] d = "density" -> DensityOf(a)
      [] OTHER -> DiffOf(a)

\* the aggregate block of DHvap and diffusion skipped
AfterLoopNoAggregate(d) == "close"

\* where control goes when the secondary loop is exhausted: DHvap and
\* diffusion aggregate after the loop, density has aggregated inside it
AfterLoop(d) == IF d = "density" THEN "close" ELSE "aggregate"

\* one iteration of the secondary loop
Reduce ==
    /\ pc = "reduce"
    /\ \E c \in IF ti = focus THEN Contents(driver)
                ELSE {DefaultFiles(driver)[fi]} :
         /\ series' = c
         /\ IF ReduceRaises(driver, c)
            THEN /\ Crash
                 /\ handles' = ManagerExit(handles, datfiles, TRUE)
                 /\ vol_avgs' = IF driver = "density" /\ c # <<>>
                                THEN Append(vol_avgs, MeanReduce(c))
                                ELSE vol_avgs
                 /\ avg' = IF driver = "density" /\ c # <<>>
                           THEN MeanReduce(c) ELSE avg
                 /\ UNCHANGED <<estimates, fi, vol_mean, mean, std_dev,
                                phases, replicas>>
            ELSE LET a == Reduction(driver, c)
                     e == Estimate(driver, a, TEMPERATURE)
                     es == Append(estimates, e)
                 IN  /\ avg' = a
                     /\ estimates' = es
                     /\ replicas' = Append(replicas, e)
                     /\ fi' = fi + 1
                     /\ pc' = IF fi = Len(datfiles) THEN AfterLoop(driver)
                              ELSE "reduce"
                     /\ IF driver = "density"
                        THEN /\ vol_avgs' = Append(vol_avgs, a)
                             /\ vol_mean' = Mean(Append(vol_avgs, a))
                             /\ mean' = Mean(es)
                             /\ std_dev' = StdDev(es, Mean(es), divisor)
                             /\ phases' = phases \o <<"Reduce", "Aggregate">>
                        ELSE /\ phases' = Append(phases, "Reduce")
                             /\ UNCHANGED <<vol_avgs, vol_mean, mean, std_dev>>
                     /\ UNCHANGED <<handles, exitStatus>>
    /\ UNCHANGED <<driver, focus, fault, diagPrinted, C_vibs, C_nis, viscs,
                   tbl, lines, resultFile, wtOpens, ti, C, datfiles,
                   num_files, divisor, mean_corr>>

\* DHvap lines 115-118, diffusion lines 105-108
Aggregate ==
    /\ pc = "aggregate"
    /\ mean' = Mean(estimates)
    /\ std_dev' = StdDev(estimates, Mean(estimates), divisor)
    /\ mean_corr' = <<RAdd(Mean(estimates), C[1]), C[2]>>
    /\ phases' = phases \o <<"Aggregate", "Apply">>
    /\ pc' = "close"
    /\ UNCHANGED <<driver, focus, fault, exitStatus, diagPrinted, C_vibs,
                   C_nis, viscs, tbl, lines, resultFile, wtOpens, ti, C,
                   handles, datfiles, num_files, divisor, fi, series, avg,
                   estimates, vol_avgs, vol_mean, replicas>>

\* the end of the with-block, reached without an exception
CloseFiles ==
    /\ pc = "close"
    /\ handles' = ManagerExit(handles, datfiles, FALSE)
    /\ pc' = "emit"
    /\ UNCHANGED <<driver, focus, fault, exitStatus, diagPrinted, C_vibs,
                   C_nis, viscs, tbl, lines, resultFile, wtOpens, ti, C,
                   datfiles, num_files, divisor, fi, series, avg, estimates,
                   vol_avgs, vol_mean, mean, std_dev, mean_corr, phases,
                   replicas>>

\* the arguments of fmt_data.format
Row(d) ==
    IF d = "density"
    THEN [kind |-> "row", T |-> TEMPERATURE, P |-> PRESSURE,
          vol_mean |-> vol_mean, mean |-> mean, std_dev |-> std_dev]
    ELSE [kind |-> "row", T |-> TEMPERATURE, P |-> PRESSURE, mean |-> mean,
          C |-> C, mean_corr |-> mean_corr, std_dev |-> std_dev]

\* a primary loop that skips every other temperature
NextIndexSkipping(i) == i + 2

\* the primary loop's step to the next temperature
NextIndex(i) == i + 1

\* with open(<result file>, 'at') as f: f.write(fmt_data.format(...)), and the
\* primary loop's step: the next temperature, or the end of the script
Emit ==
    /\ pc = "emit"
    /\ resultFile' = Append(OpenAt(resultFile), Row(driver))
    /\ phases' = Append(phases, "Emit")
    /\ IF NextIndex(ti) <= Len(TEMPS)
       THEN /\ ti' = NextIndex(ti)
            /\ pc' = LoopStart(driver)
            /\ UNCHANGED exitStatus
       ELSE /\ pc' = "exited"
            /\ exitStatus' = 0
            /\ UNCHANGED ti
    /\ UNCHANGED <<driver, focus, fault, diagPrinted, C_vibs, C_nis, viscs,
                   tbl, lines, wtOpens, C, handles, datfiles, num_files,
                   divisor, fi, series, avg, estimates, vol_avgs, vol_mean,
                   mean, std_dev, mean_corr, replicas>>

Next ==
    \/ OpenTable
    \/ LoadLine
    \/ WriteHeader
    \/ Correct
    \/ Discover
    \/ Reduce
    \/ Aggregate
    \/ CloseFiles
    \/ Emit

Spec == Init /\ [][Next]_vars

(***************************************************************************)
(* Vocabulary of the properties.                                           *)
(***************************************************************************)
Range(q) == {q[i] : i \in 1..Len(q)}

IsPrefix(p, q) == Len(p) <= Len(q) /\ SubSeq(q, 1, Len(p)) = p

\* the rows of the result file: what follows its first record
Rows == SubSeq(resultFile, 2, Len(resultFile))

\* the result file is the header followed by one row for each of the first
\* k temperatures, in order
HeaderAndRows(file, k) ==
    /\ Len(file) = k + 1
    /\ file[1] = HEADER
    /\ \A i \in 1..k : file[i + 1].kind = "row" /\ file[i + 1].T = TEMPS[i]

\* the replica files of the current temperature have been discovered and its
\* row is not yet written
InTemp == "Discover" \in Range(phases) /\ "Emit" \notin Range(phases)

\* the last step wrote the row of a temperature
JustEmitted == phases # <<>> /\ phases[Len(phases)] = "Emit"

\* the statistics of a sample, by their textbook definitions
SampleMean(xs) == RDiv(RSum(xs), RInt(Len(xs)))
SumSqDev(xs) == RSum([i \in 1..Len(xs) |-> RSq(RSub(xs[i], SampleMean(xs)))])
SampleStd(xs) == Sqrt(RDiv(SumSqDev(xs), RInt(Len(xs) - 1)))

\* fewer than two points, or all times identical
Degenerate(data) ==
    \/ Len(data) < 2
    \/ \A i \in 1..Len(data) : data[i][1] = data[1][1]

(***************************************************************************)
(* C1.  Discovery threshold.  Once the replica files of a temperature have *)
(* been counted: if fewer than 2 match, the diagnostic has been printed,   *)
(* the process has ended with status 1, no replica of the temperature was  *)
(* reduced and the file holds no row for it; if 2 or more match, no        *)
(* diagnostic is printed, the secondary loop runs over every discovered    *)
(* file, and past the loop every discovered file has been reduced.         *)
(***************************************************************************)
C1_DiscoveryThreshold ==
    InTemp =>
        IF Len(datfiles) < MIN_DATA_FILES
        THEN /\ diagPrinted
             /\ pc = "exited" /\ exitStatus = 1
             /\ replicas = <<>>
             /\ HeaderAndRows(resultFile, ti - 1)
        ELSE /\ ~diagPrinted
             /\ pc = "reduce" => Len(replicas) = fi - 1 /\ fi <= Len(datfiles)
             /\ pc \in {"aggregate", "close", "emit"} =>
                    Len(replicas) = Len(datfiles)
             /\ pc = "exited" => exitStatus = 1 /\ ReduceRaises(driver, series)

C1_Witness ==
    /\ InTemp
    /\ Len(datfiles) = 1
    /\ pc = "exited" /\ exitStatus = 1 /\ diagPrinted
    /\ ti = 2

(***************************************************************************)
(* C2.  The result file of a completed run.  The file is opened with mode  *)
(* 'wt' at most once, and before anything of a temperature is done; a run  *)
(* that ends with status 0 has opened it so exactly once and leaves the    *)
(* header followed by exactly the 7 rows of 238, 258, 268, 278, 298, 318,  *)
(* 338 in that order.                                                      *)
(***************************************************************************)
C2_HeaderOnceSevenRows ==
    /\ wtOpens <= 1
    /\ wtOpens = 0 => phases = <<>> /\ datfiles = <<>> /\ C = UnboundSym
    /\ exitStatus = 0 =>
          /\ wtOpens = 1
          /\ HeaderAndRows(resultFile, Len(TEMPS))
          /\ [i \in 1..Len(Rows) |-> Rows[i].T] = TEMPS

C2_Witness ==
    /\ exitStatus = 0
    /\ pc = "exited"
    /\ Len(Rows) = Len(TEMPS)
    /\ Rows[Len(Rows)].T = TEMPS[Len(TEMPS)]

(***************************************************************************)
(* C3.  Partial output of a failed run.  Once the header is written, a     *)
(* step only ever appends to the result file; and a step that ends the run *)
(* with status 1 while the k-th temperature is processed writes nothing    *)
(* and leaves the header followed by exactly the rows of the first k-1     *)
(* temperatures, in order.                                                 *)
(***************************************************************************)
C3_PartialOutputKept ==
    [][ /\ wtOpens = 1 => IsPrefix(resultFile, resultFile')
        /\ (wtOpens = 1 /\ exitStatus = Running /\ exitStatus' = 1) =>
              /\ resultFile' = resultFile
              /\ HeaderAndRows(resultFile', ti' - 1)
              /\ pc' = "exited"
      ]_vars

C3_Witness ==
    /\ exitStatus = 1
    /\ fault.kind = "missing"
    /\ ti = 3
    /\ HeaderAndRows(resultFile, 2)

(***************************************************************************)
(* C4.  Scoped replica handles.  Whenever control is outside the           *)
(* with-block of multi_file_manager (the process having ended included),   *)
(* every replica file handle the driver opened is closed.                  *)
(***************************************************************************)
C4_HandlesClosedOutsideWith ==
    pc \notin {"reduce", "aggregate", "close"} =>
        \A h \in DOMAIN handles : ~handles[h]

(***************************************************************************)
(* C5.  Aggregation.  The row just written holds the mean of the           *)
(* per-replica estimates of its temperature (their sum over their count n) *)
(* and the square root of their summed squared deviations from that mean   *)
(* over n - 1, where n is the number of discovered files and is at least 2.*)
(***************************************************************************)
C5_MeanAndBesselStd ==
    JustEmitted =>
        LET row == resultFile[Len(resultFile)]
        IN  /\ Len(replicas) = Len(datfiles)
            /\ Len(replicas) >= 2
            /\ row.mean = SampleMean(replicas)
            /\ row.std_dev = SampleStd(replicas)

C5_Witness ==
    /\ JustEmitted
    /\ driver = "density"
    /\ Len(replicas) = 3
    /\ replicas[1] # replicas[3]
    /\ resultFile[Len(resultFile)].std_dev = SampleStd(replicas)
    /\ SumSqDev(replicas) # RZero

(***************************************************************************)
(* C6.  Mean reduction of one replica file (DHvap, density).  An iteration *)
(* of the secondary loop that reads a file of exactly one token sets the   *)
(* per-replica average to that token's value and does not fail; one that   *)
(* reads a file of no token ends the run with status 1, appends no         *)
(* estimate and writes no row.                                             *)
(***************************************************************************)
C6_MeanReduceOneAndZeroTokens ==
    [][ (pc = "reduce" /\ driver # "diffusion") =>
          /\ Len(series') = 1 =>
                /\ avg' = RInt(series'[1])
                /\ exitStatus' = Running
                /\ Len(estimates') = Len(estimates) + 1
          /\ Len(series') = 0 =>
                /\ pc' = "exited" /\ exitStatus' = 1
                /\ estimates' = estimates
                /\ replicas' = replicas
                /\ resultFile' = resultFile
      ]_vars

C6_Witness ==
    /\ driver = "DHvap"
    /\ InTemp
    /\ Len(datfiles) >= MIN_DATA_FILES
    /\ pc = "exited" /\ exitStatus = 1
    /\ series = <<>>
    /\ Len(estimates) = 1
    /\ HeaderAndRows(resultFile, ti - 1)

(***************************************************************************)
(* C7.  The steps of one temperature, as the claim states them: the        *)
(* correction tables are not read and the correction constant is not       *)
(* computed before the temperature's replica files are discovered and      *)
(* counted, and no aggregation comes before the reduction of a replica.    *)
(***************************************************************************)
C7_StepsAsClaimed ==
    \A i, j \in 1..Len(phases) :
        i < j => /\ ~(phases[i] = "Lookup" /\ phases[j] = "Discover")
                 /\ ~(phases[i] = "Aggregate" /\ phases[j] = "Reduce")

\* n times the sequence q
RECURSIVE Repeat(_, _)
Repeat(q, n) == IF n = 0 THEN <<>> ELSE q \o Repeat(q, n - 1)

\* the steps of one temperature with n replica files, as the scripts do them
StepsOf(d, n) ==
    IF d = "density"
    THEN <<"Discover">> \o Repeat(<<"Reduce", "Aggregate">>, n) \o <<"Emit">>
    ELSE <<"Lookup", "Discover">> \o Repeat(<<"Reduce">>, n)
             \o <<"Aggregate", "Apply", "Emit">>

(***************************************************************************)
(* C7, amended.  DHvap and diffusion read the correction tables and        *)
(* compute the correction constant first, then discover and count the      *)
(* replica files, reduce every one of them, aggregate, add the correction  *)
(* to the mean and emit; density discovers, then reduces each replica and  *)
(* aggregates anew right after each reduction, and emits.  No step is      *)
(* skipped, and the file holds exactly one row for each temperature that   *)
(* went through all its steps.                                             *)
(***************************************************************************)
C7_StepsInProgramOrder ==
    /\ IsPrefix(phases, StepsOf(driver, Len(datfiles)))
    /\ JustEmitted => phases = StepsOf(driver, Len(datfiles))
    /\ wtOpens = 1 =>
          HeaderAndRows(resultFile,
                        IF exitStatus = 0 THEN Len(TEMPS) ELSE ti - 1)

C7_Witness ==
    /\ driver = "DHvap"
    /\ phases = <<"Lookup", "Discover", "Reduce", "Reduce", "Reduce",
                  "Aggregate", "Apply", "Emit">>
    /\ Len(Rows) = 2

(***************************************************************************)
(* C8.  Slope reduction of a degenerate series (diffusion).  An iteration  *)
(* of the secondary loop that reads a file of fewer than 2 points, or of   *)
(* points whose times are all identical, ends the run with status 1 and    *)
(* appends no estimate.                                                    *)
(***************************************************************************)
C8_DegenerateSeriesFatal ==
    [][ (pc = "reduce" /\ driver = "diffusion" /\ Degenerate(series')) =>
          /\ pc' = "exited" /\ exitStatus' = 1
          /\ estimates' = estimates
      ]_vars

\* the estimates of the regular replica files of the i-th temperature
DefaultEstimates(d, i) ==
    [k \in 1..Len(DefaultFiles(d)) |->
        Estimate(d, Reduction(d, DefaultFiles(d)[k]), TEMPS[i])]

\* the correction constant of the i-th temperature, from the loaded tables
CorrectionOf(d, i) ==
    IF d = "DHvap"
    THEN <<RAdd(RAdd(C_vibs[TEMPS[i]], C_nis[TEMPS[i]]), RInt(C_x)), ROne>>
    ELSE <<RZero, RDiv(RInt(TEMPS[i]), viscs[TEMPS[i]])>>

\* the row of the i-th temperature as a function of that temperature, the
\* correction tables and the estimates of its own replica files
RowOf(d, i, reps) ==
    IF d = "density"
    THEN [kind |-> "row", T |-> TEMPS[i], P |-> PRESSURE,
          vol_mean |-> SampleMean([k \in 1..Len(reps) |->
                                      RDiv(CONV_FACT_MASS, reps[k])]),
          mean |-> SampleMean(reps), std_dev |-> SampleStd(reps)]
    ELSE [kind |-> "row", T |-> TEMPS[i], P |-> PRESSURE,
          mean |-> SampleMean(reps), C |-> CorrectionOf(d, i),
          mean_corr |-> <<RAdd(SampleMean(reps), CorrectionOf(d, i)[1]),
                          CorrectionOf(d, i)[2]>>,
          std_dev |-> SampleStd(reps)]

(***************************************************************************)
(* C9.  Rows do not depend on other temperatures.  The row just written   *)
(* is the row computed from its own temperature, the tables and the        *)
(* estimates of its own replica files alone; for a temperature with the    *)
(* regular replica files it is therefore the same row whatever the replica *)
(* data of the irregular temperature processed before it were.             *)
(***************************************************************************)
C9_RowFromOwnTemperature ==
    JustEmitted =>
        LET i == Len(Rows)
        IN  /\ Rows[i] = RowOf(driver, i, replicas)
            /\ i # focus => Rows[i] = RowOf(driver, i, DefaultEstimates(driver, i))

C9_Witness ==
    /\ driver = "density"
    /\ focus = 1
    /\ Len(Rows) = 3
    /\ Rows[1] # RowOf(driver, 1, DefaultEstimates(driver, 1))
    /\ Rows[1].vol_mean # Rows[2].vol_mean
    /\ Rows[3] = RowOf(driver, 3, DefaultEstimates(driver, 3))

\* the load of a correction table has raised ValueError
LoadFailed ==
    /\ pc = "exited"
    /\ lines # <<>>
    /\ ~LineParses(Head(lines))

(***************************************************************************)
(* C10.  Tables before the result file (DHvap, diffusion).  The result     *)
(* file is opened for overwrite only when every correction table is fully  *)
(* loaded; a run whose table load fails ends with the result file exactly  *)
(* as it was before the run and with no temperature processed.             *)
(***************************************************************************)
C10_TablesBeforeHeader ==
    driver # "density" =>
        /\ wtOpens >= 1 =>
              /\ pc \notin {"open_table", "load"}
              /\ tbl = Len(Tables(driver))
              /\ lines = <<>>
        /\ pc \in {"open_table", "load"} => resultFile = <<OLD>>
        /\ LoadFailed =>
              /\ exitStatus = 1
              /\ resultFile = <<OLD>>
              /\ wtOpens = 0
              /\ phases = <<>> /\ datfiles = <<>> /\ ti = 1

C10_Witness ==
    /\ driver = "DHvap"
    /\ LoadFailed
    /\ tbl = 2
    /\ Len(Head(lines)) = 1
    /\ resultFile = <<OLD>>
====
